---- MODULE Spec2Model ----
(***************************************************************************)
(* Model of src/main.py: the YouTube comment sentiment command-line tool.  *)
(*                                                                         *)
(* Strings are sequences of one-character strings, so that len(), slicing, *)
(* split(), the URL parse and the regular expression of clean_text are     *)
(* computed character by character as the Python code computes them.       *)
(* Scores are fixed-point numbers in units of 1/ScoreScale.                *)
(***************************************************************************)
EXTENDS Integers, Sequences, FiniteSets, TLC

(***************************************************************************)
(* String helpers (Python str operations used by the code)                 *)
(***************************************************************************)

\* s[:n]
Take(s, n) == SubSeq(s, 1, IF n < Len(s) THEN n ELSE Len(s))

\* s[n:]
Drop(s, n) == SubSeq(s, n + 1, Len(s))

\* c in s
Contains(s, c) == \E i \in 1..Len(s) : s[i] = c

\* s.find(c) + 1 (0 when c does not occur)
Find(s, c) ==
  IF Contains(s, c) THEN CHOOSE i \in 1..Len(s) : s[i] = c /\ \A j \in 1..(i - 1) : s[j] # c
  ELSE 0

\* s.split(c): the pieces of s between occurrences of c
RECURSIVE Split(_, _)
Split(s, c) ==
  LET i == Find(s, c)
  IN IF i = 0 THEN <<s>> ELSE <<Take(s, i - 1)>> \o Split(Drop(s, i), c)

\* s.split(c, 1)
Split1(s, c) ==
  LET i == Find(s, c)
  IN IF i = 0 THEN <<s>> ELSE <<Take(s, i - 1), Drop(s, i)>>

UpperCase == {"Y", "O", "U", "T", "B", "E", "P"}

LowerCase ==
  {"a", "b", "c", "d", "e", "h", "i", "l", "m", "o", "p", "r", "s", "t", "u",
   "v", "w", "x", "y"}

Digits == {"1", "2", "3", "4", "5", "6", "7", "8"}

\* str.lower() on one character
LowerChar(c) ==
  CASE c = "Y" -> "y" [] c = "O" -> "o" [] c = "U" -> "u"
    [] c = "T" -> "t" [] c = "B" -> "b" [] c = "E" -> "e"
    [] c = "P" -> "p"
    [] OTHER -> c

\* str.lower()
Lower(s) == [i \in 1..Len(s) |-> LowerChar(s[i])]

\* str.strip() for the whitespace of the alphabet
RECURSIVE LStrip(_)
LStrip(s) == IF Len(s) > 0 /\ s[1] = " " THEN LStrip(Tail(s)) ELSE s

RECURSIVE RStrip(_)
RStrip(s) ==
  IF Len(s) > 0 /\ s[Len(s)] = " " THEN RStrip(SubSeq(s, 1, Len(s) - 1)) ELSE s

Strip(s) == RStrip(LStrip(s))

(***************************************************************************)
(* urllib.parse as called by extract_video_id                              *)
(***************************************************************************)

\* urllib.parse.scheme_chars
IsSchemeChar(c) == c \in LowerCase \cup UpperCase \cup Digits \cup {"+", "-", "."}

IsAlpha(c) == c \in LowerCase \cup UpperCase

\* _splitnetloc(url, 2): the netloc ends at the first of "/", "?", "#"
NetlocEnd(u) ==
  LET stops == {i \in 3..Len(u) : u[i] \in {"/", "?", "#"}}
  IN IF stops = {} THEN Len(u) + 1
     ELSE CHOOSE i \in stops : \A j \in stops : i <= j

\* netloc.hostname: the port is cut off, the host lowercased, "" becomes None
Hostname(netloc) ==
  LET h == Lower(Split1(netloc, ":")[1])
  IN IF h = <<>> THEN [some |-> FALSE, val |-> <<>>] ELSE [some |-> TRUE, val |-> h]

\* urlparse(url): scheme, then netloc after "//", then fragment, then query.
\* The URLs of Parts do not start with a blank and hold none of "@", "[", ";",
\* "%", "+", tab or newline, so user info, IPv6 hosts, path parameters,
\* percent-decoding and the removal of unsafe characters do not come up.
UrlParse(url) ==
  LET i == Find(url, ":")
      hasScheme == /\ i > 1
                   /\ IsAlpha(url[1])
                   /\ \A k \in 1..(i - 1) : IsSchemeChar(url[k])
      scheme == IF hasScheme THEN Lower(Take(url, i - 1)) ELSE <<>>
      u1 == IF hasScheme THEN Drop(url, i) ELSE url
      hasNetloc == Take(u1, 2) = <<"/", "/">>
      e == NetlocEnd(u1)
      netloc == IF hasNetloc THEN SubSeq(u1, 3, e - 1) ELSE <<>>
      u2 == IF hasNetloc THEN Drop(u1, e - 1) ELSE u1
      u3 == Split1(u2, "#")[1]
      pq == Split1(u3, "?")
  IN [scheme |-> scheme,
      netloc |-> netloc,
      hostname |-> Hostname(netloc),
      path |-> pq[1],
      query |-> IF Len(pq) = 2 THEN pq[2] ELSE <<>>]

\* parse_qsl(query): the (name, value) pairs with a non-blank value, in order
RECURSIVE QueryPairs(_)
QueryPairs(fields) ==
  IF fields = <<>> THEN <<>>
  ELSE LET nv == Split1(Head(fields), "=")
           rest == QueryPairs(Tail(fields))
       IN IF Len(nv) = 2 /\ Len(nv[2]) > 0 THEN <<nv>> \o rest ELSE rest

\* parse_qs(query)[name]: the values of name in order (<<>> is a KeyError)
ParseQs(query, name) ==
  LET pairs == IF query = <<>> THEN <<>> ELSE QueryPairs(Split(query, "&"))
  IN SelectSeq(pairs, LAMBDA nv : nv[1] = name)

(***************************************************************************)
(* extract_video_id                                                        *)
(***************************************************************************)

\* The length of a raw identifier
IdLen == 11

YoutubeHosts ==
  {<<"w", "w", "w", ".", "y", "o", "u", "t", "u", "b", "e", ".", "c", "o", "m">>,
   <<"y", "o", "u", "t", "u", "b", "e", ".", "c", "o", "m">>,
   <<"m", ".", "y", "o", "u", "t", "u", "b", "e", ".", "c", "o", "m">>}

ShortHost == <<"y", "o", "u", "t", "u", ".", "b", "e">>

\* Results of extract_video_id: an identifier, None, or an uncaught exception
IdResult(v) == [kind |-> "id", val |-> v]
NoneResult == [kind |-> "none", val |-> <<>>]
RaiseResult == [kind |-> "raise", val |-> <<>>]

\* Lines 40-59 of extract_video_id: the URL shapes
ExtractFromUrl(url) ==
    LET query == UrlParse(url)
        host == query.hostname
        segs == Split(query.path, "/")
    IN IF host.some /\ host.val = ShortHost
       THEN IdResult(Drop(query.path, 1))
       ELSE IF host.some /\ host.val \in YoutubeHosts
       THEN IF query.path = <<"/", "w", "a", "t", "c", "h">>
            THEN LET p == ParseQs(query.query, <<"v">>)
                 IN IF p = <<>> THEN RaiseResult ELSE IdResult(p[1][2])
            ELSE IF Take(query.path, 7) = <<"/", "e", "m", "b", "e", "d", "/">>
            THEN IdResult(segs[3])
            ELSE IF Take(query.path, 3) = <<"/", "v", "/">>
            THEN IdResult(segs[3])
            ELSE IF Take(query.path, 8) = <<"/", "s", "h", "o", "r", "t", "s", "/">>
            THEN IdResult(segs[3])
            ELSE NoneResult
       ELSE NoneResult

\* extract_video_id without the test for a raw identifier
ExtractVideoIdNoRawCheck(url) == ExtractFromUrl(url)

extract_video_id(url) ==
  IF Len(url) = IdLen /\ ~Contains(url, " ") /\ ~Contains(url, "/")
  THEN IdResult(url)
  ELSE ExtractFromUrl(url)

(***************************************************************************)
(* Inputs of extract_video_id: a URL written as scheme, host, port, path   *)
(* prefix, path segment, path rest, query fields and fragment              *)
(***************************************************************************)

Schemes == {<<>>, <<"h", "t", "t", "p", "s", ":", "/", "/">>, <<"/", "/">>}

HostNames ==
  {<<>>, <<"y", "o", "u", "t", "u", ".", "b", "e">>, <<"Y", "O", "U", "T", "U", ".", "B", "E">>,
   <<"w", "w", "w", ".", "y", "o", "u", "t", "u", "b", "e", ".", "c", "o", "m">>,
   <<"y", "o", "u", "t", "u", "b", "e", ".", "c", "o", "m">>,
   <<"m", ".", "y", "o", "u", "t", "u", "b", "e", ".", "c", "o", "m">>,
   <<"e", "v", "i", "l", ".", "c", "o", "m">>}

Ports == {<<>>, <<":", "8">>}

Prefixes ==
  {<<>>, <<"/">>, <<"/", "w", "a", "t", "c", "h">>, <<"/", "w", "a", "t", "c", "h", "/">>,
   <<"/", "s", "h", "o", "r", "t", "s", "/">>, <<"/", "e", "m", "b", "e", "d", "/">>,
   <<"/", "v", "/">>, <<"/", "x", "/">>}

SampleId == <<"a", "b", "c", "1", "2", "3", "4", "5", "6", "7", "8">>

Segments == {<<>>, SampleId, <<"a", "b">>, <<"a", " ", "b">>}

Rests == {<<>>, <<"/", "x">>}

\* A query is a sequence of (name, value) fields
Queries ==
  {<<>>,
   <<<<<<"v">>, SampleId>>>>,
   <<<<<<"t">>, <<"1">>>>, <<<<"v">>, <<"a", "b">>>>>>,
   <<<<<<"t">>, <<"1">>>>>>,
   <<<<<<"v">>, <<>>>>>>,
   <<<<<<"v">>, <<>>>>, <<<<"v">>, SampleId>>>>}

Fragments == {<<>>, <<"#", "x">>}

Parts ==
  [scheme : Schemes, host : HostNames, port : Ports, prefix : Prefixes,
   seg : Segments, rest : Rests, query : Queries, frag : Fragments]

\* name=value joined by "&" after a "?"
RECURSIVE JoinFields(_)
JoinFields(q) ==
  IF q = <<>> THEN <<>>
  ELSE Head(q)[1] \o <<"=">> \o Head(q)[2]
       \o (IF Len(q) > 1 THEN <<"&">> ELSE <<>>) \o JoinFields(Tail(q))

QueryText(q) == IF q = <<>> THEN <<>> ELSE <<"?">> \o JoinFields(q)

PathOf(p) == p.prefix \o p.seg \o p.rest

\* The text the user types for the URL p
UrlText(p) ==
  p.scheme \o p.host \o p.port \o PathOf(p) \o QueryText(p.query) \o p.frag

(***************************************************************************)
(* clean_text: re.sub(r'(?<=\b\w)\s+(?=\w\b)', '', text)                   *)
(***************************************************************************)

\* \w
IsWord(c) == c \in LowerCase \cup UpperCase \cup Digits \cup {"_"}

\* \s
IsSpace(c) == c \in {" ", "\t", "\n"}

\* \b at the gap before position i (between s[i-1] and s[i])
Boundary(s, i) ==
  LET left == i > 1 /\ i - 1 <= Len(s) /\ IsWord(s[i - 1])
      right == i >= 1 /\ i <= Len(s) /\ IsWord(s[i])
  IN left # right

\* The first position of the whitespace run that holds position i
RECURSIVE RunStart(_, _)
RunStart(s, i) == IF i > 1 /\ IsSpace(s[i - 1]) THEN RunStart(s, i - 1) ELSE i

\* The last position of the whitespace run that holds position i
RECURSIVE RunEnd(_, _)
RunEnd(s, i) == IF i < Len(s) /\ IsSpace(s[i + 1]) THEN RunEnd(s, i + 1) ELSE i

\* The pattern matches at [p, q]: (?<=\b\w) before p, \s+ on p..q, (?=\w\b) after q
Matches(s, p, q) ==
  /\ p > 1 /\ IsWord(s[p - 1]) /\ Boundary(s, p - 1)
  /\ \A k \in p..q : IsSpace(s[k])
  /\ q < Len(s) /\ IsWord(s[q + 1]) /\ Boundary(s, q + 2)

\* Position i is inside a match: \s+ is greedy and the lookahead needs a word
\* character right after it, so a match is a whole whitespace run
Removed(s, i) == IsSpace(s[i]) /\ Matches(s, RunStart(s, i), RunEnd(s, i))

\* The characters at the positions of keep, in order
RECURSIVE Keep(_, _, _)
Keep(s, i, drop) ==
  IF i > Len(s) THEN <<>>
  ELSE (IF i \in drop THEN <<>> ELSE <<s[i]>>) \o Keep(s, i + 1, drop)

\* clean_text that removes one whitespace character after each one-letter
\* token and does not look at what follows
CleanTextOneChar(text) ==
  Keep(text, 1, {i \in 1..Len(text) :
                   /\ IsSpace(text[i])
                   /\ i > 1 /\ IsWord(text[i - 1]) /\ Boundary(text, i - 1)})

clean_text(text) == Keep(text, 1, {i \in 1..Len(text) : Removed(text, i)})

(***************************************************************************)
(* analyze_comment                                                         *)
(* Scores are in hundredths: compound 0.05 is 5.                           *)
(***************************************************************************)

\* compound >= 0.05, in hundredths
CategoryThreshold == 5

\* Lines 81-86 with > and < in place of >= and <=
CategoryStrict(compound) ==
  IF compound > CategoryThreshold THEN "Positive"
  ELSE IF compound < -CategoryThreshold THEN "Negative"
  ELSE "Neutral"

\* Lines 81-86: the category of a compound score
Category(compound) ==
  IF compound >= CategoryThreshold THEN "Positive"
  ELSE IF compound <= -CategoryThreshold THEN "Negative"
  ELSE "Neutral"

\* Outcomes of translator.translate(text): an exception, or a string (None and
\* "" are both falsy and are the empty outcome)
TransRaise == [kind |-> "raise", val |-> <<>>]
TransOk(v) == [kind |-> "ok", val |-> v]

\* analyze_comment where only `except` falls back and an empty translation is kept
AnalyzeCommentKeepEmpty(text, trans, compound) ==
  LET translated == IF trans.kind = "raise" THEN text ELSE trans.val
      final_text == clean_text(translated)
  IN [raised |-> FALSE, scored |-> final_text, compound |-> compound,
      category |-> Category(compound), final_text |-> final_text]

\* analyze_comment(text); trans is what translate() does, compound is what
\* polarity_scores returns for the text it is given (field scored)
analyze_comment(text, trans, compound) ==
  LET t1 == IF trans.kind = "raise" THEN text ELSE trans.val
      translated == IF t1 = <<>> THEN text ELSE t1
      final_text == clean_text(translated)
  IN [raised |-> FALSE, scored |-> final_text, compound |-> compound,
      category |-> Category(compound), final_text |-> final_text]

(***************************************************************************)
(* show_report, lines 137-159: the summary                                 *)
(***************************************************************************)

\* avg_score > 0.1, in hundredths
VerdictThreshold == 10

RECURSIVE SumScores(_)
SumScores(rows) == IF rows = <<>> THEN 0 ELSE Head(rows).Score + SumScores(Tail(rows))

\* len(df[df['Category'] == c])
CountCategory(rows, c) == Len(SelectSeq(rows, LAMBDA r : r.Category = c))

NoReport == [raised |-> FALSE, total |-> 0, sum |-> 0, pos |-> 0, neg |-> 0,
             neu |-> 0, verdict |-> "none"]

\* show_report with the verdict compared by >= and <=
ShowReportInclusive(rows) ==
  IF Len(rows) = 0 THEN [NoReport EXCEPT !.raised = TRUE]
  ELSE [raised |-> FALSE, total |-> Len(rows), sum |-> SumScores(rows),
        pos |-> CountCategory(rows, "Positive"),
        neg |-> CountCategory(rows, "Negative"),
        neu |-> CountCategory(rows, "Neutral"),
        verdict |-> IF SumScores(rows) >= VerdictThreshold * Len(rows) THEN "Positive"
                    ELSE IF SumScores(rows) <= -VerdictThreshold * Len(rows) THEN "Negative"
                    ELSE "Mixed"]

\* show_report that counts the rows with a positive score as Positive
ShowReportCountBySign(rows) ==
  IF Len(rows) = 0 THEN [NoReport EXCEPT !.raised = TRUE]
  ELSE [raised |-> FALSE, total |-> Len(rows), sum |-> SumScores(rows),
        pos |-> Len(SelectSeq(rows, LAMBDA r : r.Score > 0)),
        neg |-> CountCategory(rows, "Negative"),
        neu |-> CountCategory(rows, "Neutral"),
        verdict |-> IF SumScores(rows) > VerdictThreshold * Len(rows) THEN "Positive"
                    ELSE IF SumScores(rows) < -VerdictThreshold * Len(rows) THEN "Negative"
                    ELSE "Mixed"]

\* show_report(df): the mean is sum / total, so mean > 0.1 is sum > 10 * total
\* in hundredths (exact arithmetic; the rounding of the float sum is not
\* modelled); an empty table raises before anything is printed
show_report(rows) ==
  IF Len(rows) = 0 THEN [NoReport EXCEPT !.raised = TRUE]
  ELSE [raised |-> FALSE, total |-> Len(rows), sum |-> SumScores(rows),
        pos |-> CountCategory(rows, "Positive"),
        neg |-> CountCategory(rows, "Negative"),
        neu |-> CountCategory(rows, "Neutral"),
        verdict |-> IF SumScores(rows) > VerdictThreshold * Len(rows) THEN "Positive"
                    ELSE IF SumScores(rows) < -VerdictThreshold * Len(rows) THEN "Negative"
                    ELSE "Mixed"]

(***************************************************************************)
(* State                                                                   *)
(***************************************************************************)

VARIABLES
  pc,         \* position of the run
  api_key,    \* API_KEY is set
  parts,      \* the URL the user means, as written in UrlText
  url_input,  \* input(...).strip()
  video_id,   \* result of extract_video_id
  requests,   \* number of request.execute() calls made
  total,      \* len(response['items'])
  items,      \* response['items'] not yet processed
  data,       \* the list get_data appends to
  df,         \* what get_data returned
  call,       \* the last call of analyze_comment
  out,        \* what the run has shown or written
  report,     \* the summary computed by show_report
  norm        \* a text and its normalisations

vars ==
  <<pc, api_key, parts, url_input, video_id, requests, total, items, data, df,
    call, out, report, norm>>

\* Bounds of the model
MaxItems == 2
MaxRows == 3
MaxTextLen == 6

NoParts ==
  [scheme |-> <<>>, host |-> <<>>, port |-> <<>>, prefix |-> <<>>, seg |-> <<>>,
   rest |-> <<>>, query |-> <<>>, frag |-> <<>>]

Pending == [kind |-> "pending", val |-> <<>>]

\* get_data's result: None, or a table of rows
NoTable == [some |-> FALSE, rows |-> <<>>]
Table(rows) == [some |-> TRUE, rows |-> rows]

\* An except clause that returns the rows collected so far
OnFetchErrorPartial(collected) == Table(collected)

\* Lines 94-96 and 131-133: the except clauses of get_data return None,
\* whatever has been collected
OnFetchError(collected) == NoTable

NoCall ==
  [made |-> FALSE, text |-> <<>>, trans |-> TransRaise,
   result |-> [raised |-> FALSE, scored |-> <<>>, compound |-> 0,
               category |-> "Neutral", final_text |-> <<>>]]

NoNorm == [x |-> <<>>, once |-> <<>>, twice |-> <<>>, n |-> 0]

Idle ==
  /\ api_key = TRUE
  /\ parts = NoParts
  /\ url_input = <<>>
  /\ video_id = Pending
  /\ requests = 0
  /\ items = <<>>
  /\ data = <<>>
  /\ df = NoTable
  /\ call = NoCall
  /\ out = {}
  /\ report = NoReport
  /\ norm = NoNorm
  /\ total = 0

(***************************************************************************)
(* extract_video_id on every URL of Parts                                  *)
(***************************************************************************)

InitExtract ==
  /\ pc = "extract"
  /\ api_key = TRUE
  /\ parts \in Parts
  /\ url_input = UrlText(parts)
  /\ video_id = Pending
  /\ requests = 0 /\ items = <<>> /\ data = <<>> /\ df = NoTable
  /\ call = NoCall /\ out = {} /\ report = NoReport /\ norm = NoNorm
  /\ total = 0

ExtractOnly ==
  /\ pc = "extract"
  /\ video_id' = extract_video_id(url_input)
  /\ pc' = "extracted"
  /\ UNCHANGED <<total, api_key, parts, url_input, requests, items, data, df, call, out,
                 report, norm>>

NextExtract == ExtractOnly

SpecExtract == InitExtract /\ [][NextExtract]_vars

(***************************************************************************)
(* The URL shapes, read off the URL as the user wrote it (parts), not off  *)
(* the parse                                                               *)
(***************************************************************************)

IsRawId(u) == Len(u) = IdLen /\ ~Contains(u, " ") /\ ~Contains(u, "/")

\* The path of the URL: it starts at the first "/" after the host, and text
\* between a port and that "/" belongs to the port
ClaimPath(p) ==
  LET w == PathOf(p)
      i == Find(w, "/")
  IN IF p.port = <<>> THEN w ELSE IF i = 0 THEN <<>> ELSE Drop(w, i - 1)

\* The URL names a host: "//" precedes it, and the host ends at a port, at
\* the "/" of the path or at the end of the URL
HasHost(p) ==
  /\ p.scheme # <<>>
  /\ p.host # <<>>
  /\ (p.port # <<>> \/ PathOf(p) = <<>> \/ Head(PathOf(p)) = "/")

HostIs(p, hosts) == HasHost(p) /\ Lower(p.host) \in hosts

\* The fields named v that carry a value
VFields(p) == SelectSeq(p.query, LAMBDA f : f[1] = <<"v">> /\ f[2] # <<>>)

IdPrefixes ==
  {<<"/", "s", "h", "o", "r", "t", "s", "/">>, <<"/", "e", "m", "b", "e", "d", "/">>,
   <<"/", "v", "/">>}

IsShortLink(p) == HostIs(p, {ShortHost})

IsWatch(p) ==
  /\ HostIs(p, YoutubeHosts)
  /\ ClaimPath(p) = <<"/", "w", "a", "t", "c", "h">>
  /\ VFields(p) # <<>>

IsWatchWithoutV(p) ==
  /\ HostIs(p, YoutubeHosts)
  /\ ClaimPath(p) = <<"/", "w", "a", "t", "c", "h">>
  /\ VFields(p) = <<>>

IsPrefixed(p) == HostIs(p, YoutubeHosts) /\ p.prefix \in IdPrefixes

\* What the claim says extract_video_id returns for a URL that is not a raw identifier
ClaimedId(p) ==
  IF IsShortLink(p) THEN IdResult(Drop(ClaimPath(p), 1))
  ELSE IF IsWatch(p) THEN IdResult(VFields(p)[1][2])
  ELSE IF IsPrefixed(p) THEN IdResult(p.seg)
  ELSE NoneResult

\* C4: for every input that is not a raw identifier, extract_video_id returns
\* the identifier embedded in a recognized URL shape (youtu.be path, /watch
\* with v, /shorts/, /embed/, /v/), and None for every other shape.
ExtractFollowsShapes ==
  (pc = "extracted" /\ ~IsRawId(url_input)) =>
    video_id = ClaimedId(parts)

\* Apart from /watch without v, every URL that is not a raw identifier gives
\* the identifier of its shape, or None when it has no recognized shape
ExtractFollowsShapesButWatch ==
  (pc = "extracted" /\ ~IsRawId(url_input) /\ ~IsWatchWithoutV(parts)) =>
    video_id = ClaimedId(parts)

\* A /watch URL with no v parameter makes extract_video_id raise
WatchWithoutVRaises ==
  (pc = "extracted" /\ ~IsRawId(url_input) /\ IsWatchWithoutV(parts)) =>
    video_id = RaiseResult

\* C5: every string of exactly 11 characters with no space and no "/" is
\* returned unchanged, whatever its other characters are.
RawIdReturnedUnchanged ==
  (pc = "extracted" /\ Len(url_input) = IdLen
     /\ \A i \in 1..Len(url_input) : url_input[i] \notin {" ", "/"}) =>
    video_id = IdResult(url_input)

\* An 11-character input that holds URL punctuation came back unchanged
RawIdWitness ==
  /\ pc = "extracted"
  /\ Len(url_input) = IdLen
  /\ Contains(url_input, "?") /\ Contains(url_input, ".")
  /\ ~Contains(url_input, " ") /\ ~Contains(url_input, "/")
  /\ video_id = IdResult(url_input)

(***************************************************************************)
(* clean_text applied twice to every text of at most MaxTextLen characters *)
(***************************************************************************)

TextChars == {"a", "b", " ", "."}

Texts == UNION {[1..n -> TextChars] : n \in 0..MaxTextLen}

InitClean ==
  /\ pc = "clean"
  /\ norm \in {[x |-> t, once |-> <<>>, twice |-> <<>>, n |-> 0] : t \in Texts}
  /\ Idle!1 /\ Idle!2 /\ Idle!3 /\ Idle!4 /\ Idle!5 /\ Idle!6 /\ Idle!7
  /\ Idle!8 /\ Idle!9 /\ Idle!10 /\ Idle!11 /\ Idle!13

CleanOnce ==
  /\ pc = "clean" /\ norm.n = 0
  /\ norm' = [norm EXCEPT !.once = clean_text(norm.x), !.n = 1]
  /\ UNCHANGED <<pc, total, api_key, parts, url_input, video_id, requests, items, data,
                 df, call, out, report>>

CleanTwice ==
  /\ pc = "clean" /\ norm.n = 1
  /\ norm' = [norm EXCEPT !.twice = clean_text(norm.once), !.n = 2]
  /\ UNCHANGED <<pc, total, api_key, parts, url_input, video_id, requests, items, data,
                 df, call, out, report>>

NextClean == CleanOnce \/ CleanTwice

SpecClean == InitClean /\ [][NextClean]_vars

\* C10: clean_text is idempotent: clean_text(clean_text(x)) = clean_text(x).
CleanTextIdempotent == norm.n = 2 => norm.twice = norm.once

\* "a b ab" became "ab ab" and stayed "ab ab" when normalized again
CleanTextWitness ==
  /\ norm.n = 2
  /\ norm.x = <<"a", " ", "b", " ", "a", "b">>
  /\ norm.once = <<"a", "b", " ", "a", "b">>
  /\ norm.twice = norm.once

(***************************************************************************)
(* get_data and the command-line driver (lines 200-221)                    *)
(***************************************************************************)

Author == <<"a", "b">>

\* Comment bodies the API returns
CommentTexts == {<<"T", " ", "O", " ", "P">>, <<"o", "b", " ", "a">>}

\* What translator.translate returns when it does not raise
Translations == {<<>>, <<"a", " ", "b">>}

TransOutcomes == {TransRaise} \cup {TransOk(t) : t \in Translations}

\* Compound scores polarity_scores may return, in hundredths
CompoundScores == {-5, -4, 0, 4, 5}

\* An item of response['items']: well formed, or lacking a key the loop reads
ItemKinds == {[ok |-> TRUE, text |-> t] : t \in CommentTexts}
             \cup {[ok |-> FALSE, text |-> <<>>]}

Responses == UNION {[1..n -> ItemKinds] : n \in 0..MaxItems}

\* The row get_data appends for one item (lines 117-123)
Row(text, r) ==
  [Author |-> Author, Original |-> text, Translated |-> r.final_text,
   Score |-> r.compound, Category |-> r.category]

\* URLs typed at the prompt
DriverParts ==
  {p \in Parts :
     /\ p.scheme \in {<<>>, <<"h", "t", "t", "p", "s", ":", "/", "/">>}
     /\ p.host \in {<<>>, ShortHost,
                    <<"w", "w", "w", ".", "y", "o", "u", "t", "u", "b", "e", ".", "c", "o", "m">>}
     /\ p.port = <<>>
     /\ p.prefix \in {<<>>, <<"/">>, <<"/", "w", "a", "t", "c", "h">>}
     /\ p.seg \in {<<>>, SampleId}
     /\ p.rest = <<>>
     /\ p.query \in {<<>>, <<<<<<"v">>, SampleId>>>>}
     /\ p.frag = <<>>}

\* Blanks typed around the URL
Pads == {<<>>, <<" ">>}

Init ==
  /\ pc = "start"
  /\ api_key \in BOOLEAN
  /\ Idle!2 /\ Idle!3 /\ Idle!4 /\ Idle!5 /\ Idle!6 /\ Idle!7 /\ Idle!8
  /\ Idle!9 /\ Idle!10 /\ Idle!11 /\ Idle!12 /\ Idle!13

\* Lines 201-203: without an API key the run prints the error and exits
CheckKey ==
  /\ pc = "start"
  /\ IF api_key THEN pc' = "input" /\ out' = out
     ELSE pc' = "exit" /\ out' = out \cup {"no_api_key"}
  /\ UNCHANGED <<total, api_key, parts, url_input, video_id, requests, items, data, df,
                 call, report, norm>>

\* Line 206: url_input = input(...).strip()
ReadInput ==
  /\ pc = "input"
  /\ \E p \in DriverParts, l \in Pads, r \in Pads :
       /\ parts' = p
       /\ url_input' = Strip(l \o UrlText(p) \o r)
  /\ pc' = "extract"
  /\ UNCHANGED <<total, api_key, video_id, requests, items, data, df, call, out, report,
                 norm>>

\* Lines 209-211 and 220-221: extract the identifier; an exception of
\* extract_video_id ends the run with a traceback, a falsy result is rejected
Extract ==
  /\ pc = "extract"
  /\ video_id' = extract_video_id(url_input)
  /\ IF video_id'.kind = "raise"
     THEN pc' = "crashed" /\ out' = out \cup {"traceback"}
     ELSE IF video_id'.kind = "id" /\ video_id'.val # <<>>
     THEN pc' = "build" /\ out' = out
     ELSE pc' = "exit" /\ out' = out \cup {"rejected"}
  /\ UNCHANGED <<total, api_key, parts, url_input, requests, items, data, df, call,
                 report, norm>>

\* Lines 92-99: build the API client; on an exception get_data returns None
Build ==
  /\ pc = "build"
  /\ \E ok \in BOOLEAN :
       IF ok THEN pc' = "request" /\ data' = <<>> /\ df' = df /\ out' = out
       ELSE pc' = "fetched" /\ data' = data /\ df' = OnFetchError(data)
            /\ out' = out \cup {"fetch_error"}
  /\ UNCHANGED <<total, api_key, parts, url_input, video_id, requests, items, call,
                 report, norm>>

\* Lines 102-108: one request; on an exception get_data returns None
Request ==
  /\ pc = "request"
  /\ requests' = requests + 1
  /\ \/ \E resp \in Responses :
          /\ items' = resp
          /\ total' = Len(resp)
          /\ pc' = "loop"
          /\ UNCHANGED <<df, out>>
     \/ /\ pc' = "fetched"
        /\ df' = OnFetchError(data)
        /\ out' = out \cup {"fetch_error"}
        /\ UNCHANGED <<items, total>>
  /\ UNCHANGED <<api_key, parts, url_input, video_id, data, call, report, norm>>

\* Lines 110-126: one turn of the loop; a malformed item raises KeyError,
\* which line 131 catches, and get_data returns None
ProcessItem ==
  /\ pc = "loop" /\ items # <<>>
  /\ LET item == Head(items)
     IN IF ~item.ok
        THEN /\ pc' = "fetched"
             /\ df' = OnFetchError(data)
             /\ out' = out \cup {"fetch_error"}
             /\ UNCHANGED <<items, data, call>>
        ELSE \E trans \in TransOutcomes, compound \in CompoundScores :
               LET r == analyze_comment(item.text, trans, compound)
               IN /\ call' = [made |-> TRUE, text |-> item.text, trans |-> trans,
                              result |-> r]
                  /\ IF r.raised
                     THEN /\ pc' = "fetched"
                          /\ df' = OnFetchError(data)
                          /\ out' = out \cup {"fetch_error"}
                          /\ UNCHANGED <<items, data>>
                     ELSE /\ data' = Append(data, Row(item.text, r))
                          /\ items' = Tail(items)
                          /\ UNCHANGED <<pc, df, out>>
  /\ UNCHANGED <<total, api_key, parts, url_input, video_id, requests, report, norm>>

\* Lines 128-129: return pd.DataFrame(data)
ReturnTable ==
  /\ pc = "loop" /\ items = <<>>
  /\ df' = Table(data)
  /\ pc' = "fetched"
  /\ UNCHANGED <<total, api_key, parts, url_input, video_id, requests, items, data,
                 call, out, report, norm>>

\* Line 214: if df is not None
CheckTable ==
  /\ pc = "fetched"
  /\ pc' = IF df.some THEN "report" ELSE "exit"
  /\ UNCHANGED <<total, api_key, parts, url_input, video_id, requests, items, data, df,
                 call, out, report, norm>>

\* Line 215: show_report(df, video_id); an exception ends the run
ShowReport ==
  /\ pc = "report"
  /\ report' = show_report(df.rows)
  /\ IF report'.raised
     THEN pc' = "crashed" /\ out' = out \cup {"report_called", "traceback"}
     ELSE pc' = "csv" /\ out' = out \cup {"report_called", "report"}
  /\ UNCHANGED <<total, api_key, parts, url_input, video_id, requests, items, data, df,
                 call, norm>>

\* Lines 217-219: df.to_csv(...)
WriteCsv ==
  /\ pc = "csv"
  /\ out' = out \cup {"csv"}
  /\ pc' = "exit"
  /\ UNCHANGED <<total, api_key, parts, url_input, video_id, requests, items, data, df,
                 call, report, norm>>

Next ==
  \/ CheckKey \/ ReadInput \/ Extract \/ Build \/ Request \/ ProcessItem
  \/ ReturnTable \/ CheckTable \/ ShowReport \/ WriteCsv

Spec == Init /\ [][Next]_vars

(***************************************************************************)
(* show_report on every table get_data can return with at most MaxRows     *)
(* rows                                                                    *)
(***************************************************************************)

\* Mean scores around the verdict thresholds, in hundredths
ReportScores == {-50, -20, -10, -5, -4, 0, 4, 5, 10, 20, 50}

ReportRows ==
  {[Author |-> Author, Original |-> <<"a">>, Translated |-> <<"a">>,
    Score |-> sc, Category |-> Category(sc)] : sc \in ReportScores}

InitReport ==
  /\ pc = "report"
  /\ df \in {Table(rows) : rows \in UNION {[1..n -> ReportRows] : n \in 0..MaxRows}}
  /\ Idle!1 /\ Idle!2 /\ Idle!3 /\ Idle!4 /\ Idle!5 /\ Idle!6 /\ Idle!7
  /\ Idle!9 /\ Idle!10 /\ Idle!11 /\ Idle!12 /\ Idle!13

NextReport == ShowReport \/ WriteCsv

SpecReport == InitReport /\ [][NextReport]_vars

(***************************************************************************)
(* Properties of the run                                                   *)
(***************************************************************************)

\* C1: the fetch is all-or-nothing: whenever building the client, the request
\* or the processing of an item raises, get_data returns None, a returned
\* table holds a record for every item of the response, and at most one
\* request is made.
FetchAllOrNothing ==
  /\ requests <= 1
  /\ ("fetch_error" \in out => df = NoTable)
  /\ (df.some => Len(df.rows) = total /\ "fetch_error" \notin out)

\* An item raised after a record had been appended, and None was returned
FetchFailedMidway ==
  /\ pc = "fetched"
  /\ "fetch_error" \in out
  /\ Len(data) >= 1 /\ Len(data) < total
  /\ df = NoTable
  /\ requests = 1

\* C2: show_report is called only with a table of at least one record.
ReportOnlyOnNonEmptyTable ==
  "report_called" \in out => (df.some /\ Len(df.rows) >= 1)

\* The extraction has run and gave no usable identifier
ExtractionFailed ==
  /\ pc \notin {"start", "input", "extract"}
  /\ api_key
  /\ \/ video_id.kind \in {"none", "raise"}
     \/ video_id.kind = "id" /\ video_id.val = <<>>

NothingFetched == requests = 0 /\ out \cap {"report_called", "report", "csv"} = {}

\* C3: every input whose identifier extraction fails (None, an empty
\* identifier, or a /watch URL without v) is reported as rejected, and
\* nothing is fetched, reported or written for it.
FailedExtractionIsRejected ==
  ExtractionFailed => ("rejected" \in out /\ NothingFetched)

\* A failed extraction never fetches, reports or writes anything; it is
\* rejected when extract_video_id returned, and ends the run when it raised
FailedExtractionIsRejectedUnlessRaised ==
  ExtractionFailed =>
    /\ NothingFetched
    /\ (video_id.kind # "raise" => "rejected" \in out)
    /\ (video_id.kind = "raise" => pc = "crashed" /\ "rejected" \notin out)

CategoryFollowsScore(r) ==
  /\ r.Category \in {"Positive", "Negative", "Neutral"}
  /\ (r.Category = "Positive" <=> r.Score >= 5)
  /\ (r.Category = "Negative" <=> r.Score <= -5)
  /\ (r.Category = "Neutral" <=> (r.Score > -5 /\ r.Score < 5))

\* C6: every record of the table get_data builds and returns has the category
\* fixed by its own score: Positive iff score >= 0.05, Negative iff score <=
\* -0.05, Neutral otherwise, after any number of appended records.
CategoryIsFunctionOfScore ==
  /\ \A i \in 1..Len(data) : CategoryFollowsScore(data[i])
  /\ \A i \in 1..Len(df.rows) : CategoryFollowsScore(df.rows[i])

\* A returned table holds a record at each threshold
CategoryBoundaryWitness ==
  /\ df.some
  /\ \E i, j \in 1..Len(df.rows) :
       /\ df.rows[i].Score = 5 /\ df.rows[i].Category = "Positive"
       /\ df.rows[j].Score = -5 /\ df.rows[j].Category = "Negative"

TranslationFailed(c) == c.trans.kind = "raise" \/ c.trans.val = <<>>

\* C7: when the translation raises or returns an empty result,
\* analyze_comment does not raise and returns a (score, category, text)
\* triple computed from the untranslated text; the fetch goes on.
TranslationFailureRecovered ==
  (call.made /\ TranslationFailed(call)) =>
    /\ ~call.result.raised
    /\ call.result.final_text = clean_text(call.text)
    /\ call.result.scored = clean_text(call.text)
    /\ call.result.compound \in CompoundScores
    /\ CategoryFollowsScore([Score |-> call.result.compound,
                             Category |-> call.result.category])
    /\ "fetch_error" \notin out =>
         (Len(data) >= 1 /\ data[Len(data)].Translated = clean_text(call.text)
                         /\ data[Len(data)].Original = call.text)

\* The translation of "T O P" raised and the record holds "TOP"
TranslationRaisedWitness ==
  /\ call.made
  /\ call.trans = TransRaise
  /\ call.text = <<"T", " ", "O", " ", "P">>
  /\ call.result.final_text = <<"T", "O", "P">>
  /\ Len(data) >= 1 /\ data[Len(data)].Translated = <<"T", "O", "P">>

\* The translation returned an empty result and the record holds the original
TranslationEmptyWitness ==
  /\ call.made
  /\ call.trans = TransOk(<<>>)
  /\ call.result.final_text = clean_text(call.text)
  /\ Len(call.result.final_text) > 0

Reported == pc \in {"csv", "exit"} /\ "report" \in out

\* C8: for a non-empty table the Positive, Negative and Neutral counts add up
\* to the number of records, so the percentages count / total * 100 add up
\* to 100.
CountsAddUpToTotal ==
  (Reported /\ Len(df.rows) >= 1) =>
    /\ report.total = Len(df.rows)
    /\ report.pos + report.neg + report.neu = report.total
    /\ report.pos * 100 + report.neg * 100 + report.neu * 100 = 100 * report.total

\* A table with a record in each category was reported
CountsWitness ==
  /\ Reported
  /\ report.pos >= 1 /\ report.neg >= 1 /\ report.neu >= 1
  /\ report.total = 3

RowScores(rows) == [i \in 1..Len(rows) |-> rows[i].Score]

====
